---- MODULE Spec2Model ----
(***************************************************************************)
(* TunnelManager (tunman/manager.py): one supervisor thread per            *)
(* spawn_tunnel call, a main thread that calls get_stats and               *)
(* close_all_tunnels, and the operating system's process table.            *)
(*                                                                         *)
(* A launch (subprocess.Popen(cmd, shell=True) of "autossh ... -f")        *)
(* makes two things: the wrapper, which is the child the Popen handle      *)
(* refers to and which exits once autossh has detached, and the tunnel,    *)
(* the detached autossh process that psutil finds by its command line.     *)
(***************************************************************************)
EXTENDS Integers, Sequences, FiniteSets, TLC

\* ---------------------------------------------------------------- bounds
NThreads == 2        \* spawn_tunnel calls (one thread each)
MaxLaunch == 2       \* processes launched in one behaviour
MaxInterval == 2     \* definition.validate.interval ranges over 0..MaxInterval
MaxWait == 1         \* definition.validate.wait_time_before_restart, 0..MaxWait
MaxClose == 2        \* close_all_tunnels calls
RecursionLimit == 2  \* nested spawn_ssh_process calls the interpreter allows

Threads == 1..NThreads
Defs == {"d1", "d2"}
NoPid == 0
NoDef == "none"
NoStats == [none |-> TRUE]

\* Forwarding.create_ssh_forwarding(): the signature of a definition.
Signature(d) == IF d = "d1" THEN "sig1" ELSE "sig2"

\* definition.validate: interval, wait_time_before_restart,
\* kill_existing_tunnel_on_failure. The three settings are read at
\* different places (lines 148, 161, 169): every interval is taken with the
\* longest wait and the kill flag set, and the longest interval with every
\* wait and either kill flag.
Validate ==
    {v \in [interval : 0..MaxInterval, wait : 0..MaxWait, kill : BOOLEAN] :
        v.interval = MaxInterval \/ (v.wait = MaxWait /\ v.kill)}

VARIABLES
    is_terminating,  \* self.is_terminating
    signatures,      \* self._signatures
    procs,           \* self._procs: Popen handles (pids of wrappers)
    history,         \* self._starts_history: definition -> list of dates
    lock,            \* self._lock: 0 when free, else the holding thread
    validate,        \* definition.validate, the settings of the host (an input)
    launched,        \* OS: pid p was launched with signature launched[p]
    tunnels,         \* OS: pids whose tunnel (autossh) process is running
    wrappers,        \* OS: pids whose wrapper (Popen child) has not exited
    pc,              \* thread -> position in spawn_tunnel and below
    def,             \* thread -> the definition it was spawned for
    caller,          \* thread -> call site of spawn_ssh_process, until it tracks
    tick,            \* thread -> i of _carefully_sleep
    handle,          \* thread -> proc of spawn_ssh_process (line 113)
    depth,           \* thread -> spawn_ssh_process calls on its stack
    mpc,             \* main thread: position in close_all_tunnels
    cj,              \* main thread: index of the loop of line 210
    closed,          \* number of close_all_tunnels calls that returned
    raced,           \* history: a supervisor launched or recorded a handle
                     \* since the close_all_tunnels call in progress began
    stats            \* what get_stats returned in the step just taken

shared == <<is_terminating, signatures, procs, history, lock>>
world == <<validate, launched, tunnels, wrappers>>
locals == <<pc, def, caller, tick, handle, depth>>
main == <<mpc, cj, closed, raced>>
vars == <<shared, world, locals, main, stats>>

\* ------------------------------------------------------------ operators
Max(a, b) == IF a >= b THEN a ELSE b
Abs(a) == IF a >= 0 THEN a ELSE 0 - a
Min(S) == CHOOSE x \in S : \A y \in S : x <= y

\* list.remove(e): drops the first occurrence of e; the caller catches
\* the ValueError of an absent e (lines 235-238).
Remove(s, e) ==
    LET idx == {i \in 1..Len(s) : s[i] = e}
    IN  IF idx = {} THEN s
        ELSE LET k == Min(idx)
             IN  [i \in 1..(Len(s) - 1) |-> IF i < k THEN s[i] ELSE s[i + 1]]

IsPrefix(s, t) ==
    Len(s) <= Len(t) /\ \A i \in 1..Len(s) : s[i] = t[i]

Matching(sig) == {p \in tunnels : launched[p] = sig}

\* _find_process_by_signature: the first running process whose command
\* line holds the signature and "autossh" (process_iter runs by pid).
find_process_by_signature(sig) ==
    IF Matching(sig) = {} THEN NoPid ELSE Min(Matching(sig))

\* Validation.is_process_alive(signature)
is_process_alive(sig) == Matching(sig) # {}

HistOf(d) == IF d \in DOMAIN history THEN history[d] ELSE <<>>

\* date.today() at a registration. The code never reads the entries; each
\* registration is given a day of its own, so that a rewritten entry shows.
Today == Len(signatures)

Init ==
    /\ is_terminating = FALSE
    /\ signatures = <<>>
    /\ procs = <<>>
    /\ history = [d \in {} |-> <<>>]
    /\ lock = 0
    /\ validate \in Validate
    /\ launched = <<>>
    /\ tunnels = {}
    /\ wrappers = {}
    /\ pc = [t \in Threads |-> "idle"]
    /\ def = [t \in Threads |-> NoDef]
    /\ caller = [t \in Threads |-> "none"]
    /\ tick = [t \in Threads |-> 0]
    /\ handle = [t \in Threads |-> NoPid]
    /\ depth = [t \in Threads |-> 0]
    /\ mpc = "idle"
    /\ cj = 0
    /\ closed = 0
    /\ raced = FALSE
    /\ stats = NoStats

\* ------------------------------------------------- supervisor threads
\* A variant of SpawnTunnel: a signature already known is not registered
\* again (if signature not in self._signatures).
SpawnTunnel_KnownOnce(t, d) ==
    /\ pc[t] = "idle"
    /\ \A u \in Threads : u < t => pc[u] # "idle"
    /\ signatures = <<>> => d = "d1"
    /\ lock = 0
    /\ lock' = t
    /\ def' = [def EXCEPT ![t] = d]
    /\ signatures' =
         IF \E i \in 1..Len(signatures) : signatures[i] = Signature(d)
         THEN signatures ELSE Append(signatures, Signature(d))
    /\ pc' = [pc EXCEPT ![t] = "reg"]
    /\ stats' = NoStats
    /\ UNCHANGED <<is_terminating, procs, history>>
    /\ UNCHANGED <<world, caller, tick, handle, depth, main>>

\* spawn_tunnel, lines 57-68: the call, the lock taken, the signature
\* registered. Threads are interchangeable, and so are definitions: the
\* threads start in order, and the first definition spawned is d1.
SpawnTunnel(t, d) ==
    /\ pc[t] = "idle"
    /\ \A u \in Threads : u < t => pc[u] # "idle"
    /\ signatures = <<>> => d = "d1"
    /\ lock = 0
    /\ lock' = t
    /\ def' = [def EXCEPT ![t] = d]
    /\ signatures' = Append(signatures, Signature(d))
    /\ pc' = [pc EXCEPT ![t] = "reg"]
    /\ stats' = NoStats
    /\ UNCHANGED <<is_terminating, procs, history>>
    /\ UNCHANGED <<world, caller, tick, handle, depth, main>>

\* A call of spawn_ssh_process (lines 75, 129, 155, 175) from the call
\* site given. The calls nest: none of them returns before the supervisor
\* does, and the interpreter raises RecursionError, which nothing catches,
\* in the call that exceeds its limit; the thread ends there.
SpawnSshProcess(t, site) ==
    IF depth[t] < RecursionLimit
    THEN /\ pc' = [pc EXCEPT ![t] = "clean"]
         /\ caller' = [caller EXCEPT ![t] = site]
         /\ depth' = [depth EXCEPT ![t] = @ + 1]
    ELSE /\ pc' = [pc EXCEPT ![t] = "crashed"]
         /\ caller' = [caller EXCEPT ![t] = "none"]
         /\ depth' = [depth EXCEPT ![t] = 0]

\* A variant of StartsAppend: one history for the host, every definition
\* known gets the entry.
StartsAppend_AllDefs(h, d, day) ==
    [x \in DOMAIN h \cup {d} |->
        IF x \in DOMAIN h THEN Append(h[x], day) ELSE <<day>>]

\* A variant of StartsAppend: the list of the definition is set anew
\* (self._starts_history[definition] = [date.today()]).
StartsAppend_Overwrite(h, d, day) ==
    [x \in DOMAIN h \cup {d} |-> IF x = d THEN <<day>> ELSE h[x]]

\* lines 70-73
StartsAppend(h, d, day) ==
    [x \in DOMAIN h \cup {d} |->
        IF x = d
        THEN (IF d \in DOMAIN h THEN Append(h[d], day) ELSE <<day>>)
        ELSE h[x]]

\* lines 70-75: the history entry, the lock released, and the call of
\* spawn_ssh_process.
RegisterStart(t) ==
    /\ pc[t] = "reg"
    /\ history' = StartsAppend(history, def[t], Today)
    /\ lock' = 0
    /\ SpawnSshProcess(t, "spawn_tunnel")
    /\ stats' = NoStats
    /\ UNCHANGED <<is_terminating, signatures, procs>>
    /\ UNCHANGED <<world, def, tick, handle, main>>

\* line 92
CleanAcquire(t) ==
    /\ pc[t] = "clean"
    /\ lock = 0
    /\ lock' = t
    /\ pc' = [pc EXCEPT ![t] = "clean_in"]
    /\ stats' = NoStats
    /\ UNCHANGED <<is_terminating, signatures, procs, history>>
    /\ UNCHANGED <<world, def, caller, tick, handle, depth, main>>

\* _clean_up, lines 229-238: for each handle of a copy of the list, in
\* order, remove it from the list when its process has exited.
RECURSIVE CleanFrom(_, _, _)
CleanFrom(copy, i, list) ==
    IF i > Len(copy) THEN list
    ELSE IF copy[i] \notin wrappers
         THEN CleanFrom(copy, i + 1, Remove(list, copy[i]))
         ELSE CleanFrom(copy, i + 1, list)

\* A variant of clean_up: the loop runs over the list itself, not over a
\* copy of it (for proc in self._procs), so a removal shifts the rest
\* under the iterator.
RECURSIVE CleanInPlace(_, _)
CleanInPlace(i, list) ==
    IF i > Len(list) THEN list
    ELSE IF list[i] \notin wrappers
         THEN CleanInPlace(i + 1, Remove(list, list[i]))
         ELSE CleanInPlace(i + 1, list)

clean_up_NoCopy(list) == CleanInPlace(1, list)

clean_up(list) == CleanFrom(list, 1, list)

\* lines 93-96: _clean_up, the lock released, the termination check.
CleanUp(t) ==
    /\ pc[t] = "clean_in"
    /\ procs' = clean_up(procs)
    /\ lock' = 0
    /\ pc' = [pc EXCEPT ![t] = IF is_terminating THEN "done" ELSE "popen"]
    /\ caller' = [caller EXCEPT ![t] = IF is_terminating THEN "none" ELSE @]
    /\ depth' = [depth EXCEPT ![t] = IF is_terminating THEN 0 ELSE @]
    /\ stats' = NoStats
    /\ UNCHANGED <<is_terminating, signatures, history>>
    /\ UNCHANGED <<world, def, tick, handle, main>>

\* A variant of Popen: every launch appends to the history of the definition.
Popen_RecordsStart(t) ==
    /\ pc[t] = "popen"
    /\ Len(launched) < MaxLaunch
    /\ LET p == Len(launched) + 1
       IN  /\ launched' = Append(launched, Signature(def[t]))
           /\ wrappers' = wrappers \cup {p}
           /\ tunnels' = tunnels \cup {p}
           /\ handle' = [handle EXCEPT ![t] = p]
    /\ history' = [x \in DOMAIN history \cup {def[t]} |->
                     IF x = def[t]
                     THEN Append(HistOf(x), Len(launched))
                     ELSE history[x]]
    /\ pc' = [pc EXCEPT ![t] = "track"]
    /\ stats' = NoStats
    /\ UNCHANGED <<is_terminating, signatures, procs, lock>>
    /\ raced' = (mpc # "idle")
    /\ UNCHANGED <<validate, def, caller, tick, depth, mpc, cj, closed>>

\* lines 98-113: subprocess.Popen. A tunnel that fails to come up is one
\* that exits (TunnelExit) before it is verified.
Popen(t) ==
    /\ pc[t] = "popen"
    /\ Len(launched) < MaxLaunch
    /\ LET p == Len(launched) + 1
       IN  /\ launched' = Append(launched, Signature(def[t]))
           /\ wrappers' = wrappers \cup {p}
           /\ tunnels' = tunnels \cup {p}
           /\ handle' = [handle EXCEPT ![t] = p]
    /\ pc' = [pc EXCEPT ![t] = "track"]
    /\ stats' = NoStats
    /\ raced' = (mpc # "idle")
    /\ UNCHANGED <<shared, validate, def, caller, tick, depth, mpc, cj, closed>>

\* A variant of TrackAcquire: line 116 without the lock of line 115.
TrackAcquire_NoLock(t) ==
    /\ pc[t] = "track"
    /\ pc' = [pc EXCEPT ![t] = "track_in"]
    /\ stats' = NoStats
    /\ UNCHANGED <<shared, world, def, caller, tick, handle, depth, main>>

\* line 115
TrackAcquire(t) ==
    /\ pc[t] = "track"
    /\ lock = 0
    /\ lock' = t
    /\ pc' = [pc EXCEPT ![t] = "track_in"]
    /\ stats' = NoStats
    /\ UNCHANGED <<is_terminating, signatures, procs, history>>
    /\ UNCHANGED <<world, def, caller, tick, handle, depth, main>>

\* lines 116-118: the handle recorded, the lock released, sleep(10) begun.
Track(t) ==
    /\ pc[t] = "track_in"
    /\ procs' = Append(procs, handle[t])
    /\ lock' = 0
    /\ handle' = [handle EXCEPT ![t] = NoPid]
    /\ caller' = [caller EXCEPT ![t] = "none"]
    /\ pc' = [pc EXCEPT ![t] = "settle"]
    /\ stats' = NoStats
    /\ UNCHANGED <<is_terminating, signatures, history>>
    /\ raced' = (mpc # "idle")
    /\ UNCHANGED <<world, def, tick, depth, mpc, cj, closed>>

\* _tunnel_loop, line 148 with _carefully_sleep's line 178: where the loop
\* goes first. range(0, 0) is empty: an interval of 0 returns True at once.
LoopEntry == IF validate.interval = 0 THEN "alive" ELSE "check"

\* A variant of Verify: the monitoring loop is entered without the
\* verification.
Verify_NoCheck(t) ==
    /\ pc[t] = "settle"
    /\ pc' = [pc EXCEPT ![t] = LoopEntry]
    /\ stats' = NoStats
    /\ UNCHANGED <<shared, world, def, caller, tick, handle, depth, main>>

\* lines 120-132, after sleep(10): the startup verification.
Verify(t) ==
    /\ pc[t] = "settle"
    /\ pc' = [pc EXCEPT ![t] =
                IF is_process_alive(Signature(def[t]))
                THEN LoopEntry ELSE "backoff"]
    /\ stats' = NoStats
    /\ UNCHANGED <<shared, world, def, caller, tick, handle, depth, main>>

\* lines 127-129, after sleep(15): the retry.
Retry(t) ==
    /\ pc[t] = "backoff"
    /\ SpawnSshProcess(t, "retry")
    /\ stats' = NoStats
    /\ UNCHANGED <<shared, world, def, tick, handle, main>>

\* A variant of CheckFlag: a sleep that does not look at the flag.
CheckFlag_NoTermination(t) ==
    /\ pc[t] = "check"
    /\ pc' = [pc EXCEPT ![t] = "tick"]
    /\ stats' = NoStats
    /\ UNCHANGED <<shared, world, def, caller, tick, handle, depth, main>>

\* _carefully_sleep, lines 179-183: the flag check of one tick.
CheckFlag(t) ==
    /\ pc[t] = "check"
    /\ pc' = [pc EXCEPT ![t] = IF is_terminating THEN "done" ELSE "tick"]
    /\ tick' = [tick EXCEPT ![t] = IF is_terminating THEN 0 ELSE @]
    /\ depth' = [depth EXCEPT ![t] = IF is_terminating THEN 0 ELSE @]
    /\ stats' = NoStats
    /\ UNCHANGED <<shared, world, def, caller, handle, main>>

\* lines 183, 178, 185: sleep(1) over; the next tick, or return True.
Tick(t) ==
    /\ pc[t] = "tick"
    /\ IF tick[t] + 1 < validate.interval
       THEN /\ tick' = [tick EXCEPT ![t] = @ + 1]
            /\ pc' = [pc EXCEPT ![t] = "check"]
       ELSE /\ tick' = [tick EXCEPT ![t] = 0]
            /\ pc' = [pc EXCEPT ![t] = "alive"]
    /\ stats' = NoStats
    /\ UNCHANGED <<shared, world, def, caller, handle, depth, main>>

\* A variant of ProcAlive: an exited process is handled as a failed health
\* check.
ProcAlive_AsUnhealthy(t) ==
    /\ pc[t] = "alive"
    /\ pc' = [pc EXCEPT ![t] =
                IF is_process_alive(Signature(def[t])) THEN "probe" ELSE "grace"]
    /\ stats' = NoStats
    /\ UNCHANGED <<shared, world, def, caller, tick, handle, depth, main>>

\* lines 153-155
ProcAlive(t) ==
    /\ pc[t] = "alive"
    /\ IF is_process_alive(Signature(def[t]))
       THEN /\ pc' = [pc EXCEPT ![t] = "probe"]
            /\ UNCHANGED <<caller, depth>>
       ELSE SpawnSshProcess(t, "exited")
    /\ stats' = NoStats
    /\ UNCHANGED <<shared, world, def, tick, handle, main>>

\* lines 157-162: the health probe (Validation.check_tunnel_alive passes
\* or fails); on failure sleep(wait_time_before_restart) begins.
Probe(t) ==
    /\ pc[t] = "probe"
    /\ \E ok \in BOOLEAN :
         pc' = [pc EXCEPT ![t] = IF ok THEN LoopEntry ELSE "grace"]
    /\ stats' = NoStats
    /\ UNCHANGED <<shared, world, def, caller, tick, handle, depth, main>>

\* A variant of Grace: the restart without the second probe.
Grace_NoRecheck(t) ==
    /\ pc[t] = "grace"
    /\ pc' = [pc EXCEPT ![t] = "killq"]
    /\ stats' = NoStats
    /\ UNCHANGED <<shared, world, def, caller, tick, handle, depth, main>>

\* line 165, first operand, after the sleep: a wait of 0 skips the probe.
Grace(t) ==
    /\ pc[t] = "grace"
    /\ pc' = [pc EXCEPT ![t] =
                IF validate.wait # 0 THEN "recheck" ELSE "killq"]
    /\ stats' = NoStats
    /\ UNCHANGED <<shared, world, def, caller, tick, handle, depth, main>>

\* line 165, second operand: the probe run again.
Recheck(t) ==
    /\ pc[t] = "recheck"
    /\ \E ok \in BOOLEAN :
         pc' = [pc EXCEPT ![t] = IF ok THEN "recovered" ELSE "killq"]
    /\ stats' = NoStats
    /\ UNCHANGED <<shared, world, def, caller, tick, handle, depth, main>>

\* lines 166-167: the recovery logged, continue.
Recovered(t) ==
    /\ pc[t] = "recovered"
    /\ pc' = [pc EXCEPT ![t] = LoopEntry]
    /\ stats' = NoStats
    /\ UNCHANGED <<shared, world, def, caller, tick, handle, depth, main>>

\* A variant of KillExisting: the restart without the kill.
KillExisting_NoKill(t) ==
    /\ pc[t] = "killq"
    /\ SpawnSshProcess(t, "health")
    /\ stats' = NoStats
    /\ UNCHANGED <<shared, world, def, tick, handle, main>>

\* lines 169-175: with kill_existing_tunnel_on_failure the process found
\* by signature is killed; then spawn_ssh_process is called.
KillExisting(t) ==
    /\ pc[t] = "killq"
    /\ tunnels' = IF validate.kill
                  THEN tunnels \ {find_process_by_signature(Signature(def[t]))}
                  ELSE tunnels
    /\ SpawnSshProcess(t, "health")
    /\ stats' = NoStats
    /\ UNCHANGED <<shared, validate, launched, wrappers>>
    /\ UNCHANGED <<def, tick, handle, main>>

Supervisor(t) ==
    \/ \E d \in Defs : SpawnTunnel(t, d)
    \/ RegisterStart(t)
    \/ CleanAcquire(t)
    \/ CleanUp(t)
    \/ Popen(t)
    \/ TrackAcquire(t)
    \/ Track(t)
    \/ Verify(t)
    \/ Retry(t)
    \/ CheckFlag(t)
    \/ Tick(t)
    \/ ProcAlive(t)
    \/ Probe(t)
    \/ Grace(t)
    \/ Recheck(t)
    \/ Recovered(t)
    \/ KillExisting(t)

\* ---------------------------------------------------------- main thread
\* get_stats, lines 27-46: the snapshot of the definitions asked for.
get_stats(definitions) ==
    [signatures |-> signatures,
     status |-> [d \in definitions |->
        LET proc == find_process_by_signature(Signature(d))
            starts_history == HistOf(d)
        IN  [pid |-> proc,
             is_alive |-> proc # NoPid,
             starts_history |-> starts_history,
             restarts_count |-> Abs(Len(starts_history) - 1)]],
     procs_count |-> Len(procs),
     is_terminating |-> is_terminating]

\* A variant of GetStats: a definition without a history is given an empty
\* one (self._starts_history.setdefault(definition, [])).
GetStats_SetDefault(definitions) ==
    /\ stats' = get_stats(definitions)
    /\ history' = [x \in DOMAIN history \cup definitions |-> HistOf(x)]
    /\ UNCHANGED <<is_terminating, signatures, procs, lock>>
    /\ UNCHANGED <<world, locals, main>>

GetStats(definitions) ==
    /\ stats' = get_stats(definitions)
    /\ UNCHANGED <<shared, world, locals, main>>

\* close_all_tunnels, line 195
CloseBegin ==
    /\ mpc = "idle"
    /\ closed < MaxClose
    /\ is_terminating' = TRUE
    /\ mpc' = "c_sigs"
    /\ stats' = NoStats
    /\ UNCHANGED <<signatures, procs, history, lock>>
    /\ raced' = FALSE
    /\ UNCHANGED <<world, locals, cj, closed>>

\* lines 198-208, for one signature: the process found by signature is
\* killed, then every running process with the signature.
KillSignature(running, sig) ==
    LET matching == {p \in running : launched[p] = sig}
        proc == IF matching = {} THEN NoPid ELSE Min(matching)
    IN  (running \ {proc}) \ matching

RECURSIVE KillSignatures(_, _)
KillSignatures(running, i) ==
    IF i > Len(signatures) THEN running
    ELSE KillSignatures(KillSignature(running, signatures[i]), i + 1)

\* lines 197-208: the loop over the signatures.
CloseSignatures ==
    /\ mpc = "c_sigs"
    /\ tunnels' = KillSignatures(tunnels, 1)
    /\ mpc' = "c_procs"
    /\ cj' = 1
    /\ stats' = NoStats
    /\ UNCHANGED <<shared, validate, launched, wrappers, locals, closed, raced>>

\* lines 210-212: Popen.kill() of the next tracked handle; it does
\* nothing when the process has exited. After the last one, return.
CloseProcs ==
    /\ mpc = "c_procs"
    /\ IF cj <= Len(procs)
       THEN /\ wrappers' = wrappers \ {procs[cj]}
            /\ cj' = cj + 1
            /\ UNCHANGED <<mpc, closed, raced>>
       ELSE /\ mpc' = "idle"
            /\ cj' = 0
            /\ closed' = closed + 1
            /\ raced' = FALSE
            /\ UNCHANGED wrappers
    /\ stats' = NoStats
    /\ UNCHANGED <<shared, validate, launched, tunnels, locals>>

\* ---------------------------------------------------------------- world
\* The wrapper of a launch exits (autossh -f has detached, or failed).
\* Only poll() in _clean_up tells an exited wrapper from a running one, so
\* an exit is taken when _clean_up is about to run.
WrapperExit(p) ==
    /\ p \in wrappers
    /\ \E t \in Threads : pc[t] = "clean_in"
    /\ wrappers' = wrappers \ {p}
    /\ stats' = NoStats
    /\ UNCHANGED <<shared, validate, launched, tunnels, locals, main>>

\* A tunnel process exits on its own.
TunnelExit(p) ==
    /\ p \in tunnels
    /\ tunnels' = tunnels \ {p}
    /\ stats' = NoStats
    /\ UNCHANGED <<shared, validate, launched, wrappers, locals, main>>

Next ==
    \/ \E t \in Threads : Supervisor(t)
    \/ GetStats(Defs)
    \/ CloseBegin
    \/ CloseSignatures
    \/ CloseProcs
    \/ \E p \in 1..Len(launched) : WrapperExit(p)
    \/ \E p \in 1..Len(launched) : TunnelExit(p)

Spec == Init /\ [][Next]_vars

\* ----------------------------------------------------------- properties
HasStats == "status" \in DOMAIN stats

\* The spawn_tunnel calls for d that have completed their registration
\* (line 73 done).
Registered(d) ==
    Cardinality({t \in Threads : def[t] = d /\ pc[t] \notin {"idle", "reg"}})

HistOfNext(d) == IF d \in DOMAIN history' THEN history'[d] ELSE <<>>

\* The supervisor is inside _carefully_sleep and a check of the flag is
\* still to come: it is at the check of a tick, or in the sleep(1) of a
\* tick that is not the last.
FlagCheckAhead(t) ==
    \/ pc[t] = "check"
    \/ pc[t] = "tick" /\ tick[t] + 1 < validate.interval

\* C1: in every snapshot get_stats returns, for every definition asked
\* for (one never spawned included), restarts_count is
\* max(len(starts_history) - 1, 0) of the starts_history of the snapshot.
C1_RestartsCount ==
    HasStats =>
        \A d \in DOMAIN stats.status :
            stats.status[d].restarts_count =
                Max(Len(stats.status[d].starts_history) - 1, 0)

\* C2: once close_all_tunnels has been called twice, and with every
\* supervisor stopped, get_stats reports a procs_count of 0.
C2_ProcsCountZero ==
    (/\ closed >= 2
     /\ HasStats
     /\ \A t \in Threads : pc[t] \in {"idle", "done"})
        => stats.procs_count = 0

\* C3 as claimed: with the termination flag set while a supervisor is
\* inside the cancellable sleep, at any tick, the supervisor stays in the
\* sleep or returns; it reaches no probe and no launch.
C3_AnyTick ==
    [][\A t \in Threads :
        (is_terminating /\ pc[t] \in {"check", "tick"})
            => pc'[t] \in {"check", "tick", "done"}]_vars

\* C3 as amended: with the termination flag set while a supervisor is
\* inside the cancellable sleep and a check of the flag is still to come,
\* the supervisor stays in the sleep, a check still to come, or returns:
\* no probe is called and no process is launched.
C3_BeforeLastTick ==
    [][\A t \in Threads :
        (is_terminating /\ FlagCheckAhead(t))
            => (pc'[t] = "done" \/ FlagCheckAhead(t)')]_vars

\* C3 witness: the flag is set while a supervisor sleeps in a tick that is
\* not the last.
C3_Witness ==
    \E t \in Threads :
        is_terminating /\ pc[t] = "tick" /\ tick[t] + 1 < validate.interval

\* C4: the history of a definition has as many entries as spawn_tunnel
\* calls for it have completed registration, whatever retries were made.
C4_HistoryCountsSpawns ==
    \A d \in Defs : Len(HistOf(d)) = Registered(d)

\* C4 witness: a retry after a failed startup verification has launched
\* again, and the history of its definition still has its one entry.
C4_Witness ==
    \E t \in Threads :
        /\ caller[t] = "retry"
        /\ pc[t] = "track"
        /\ Registered(def[t]) = 1
        /\ Len(HistOf(def[t])) = 1

\* C5: with kill_existing_tunnel_on_failure set and the probe failed before
\* and after the grace wait, once the relaunch has launched its process the
\* history of the definition holds an entry more than its spawn_tunnel
\* calls made.
C5_RestartRecorded ==
    \A t \in Threads :
        (/\ caller[t] = "health"
         /\ pc[t] = "track"
         /\ validate.kill
         /\ validate.wait # 0)
            => Len(HistOf(def[t])) > Registered(def[t])

\* C6 as claimed: for every grace period, 0 included, the grace wait is
\* followed by the second probe.
C6_AnyGrace ==
    [][\A t \in Threads :
        pc[t] = "grace" => pc'[t] \in {"grace", "recheck"}]_vars

\* C6 as amended: for every grace period other than 0 the grace wait is
\* followed by the probe, run once; and a second probe that passed is
\* followed by the monitoring loop, with no process killed or launched.
C6_NonZeroGrace ==
    [][\A t \in Threads :
        /\ (pc[t] = "grace" /\ validate.wait # 0)
              => pc'[t] \in {"grace", "recheck"}
        /\ pc[t] = "recheck"
              => pc'[t] \in {"recheck", "recovered", "killq"}
        /\ (pc[t] = "recovered" /\ pc'[t] # "recovered")
              => /\ pc'[t] = LoopEntry
                 /\ tunnels' = tunnels
                 /\ launched' = launched]_vars

\* C6 witness: the second probe has passed.
C6_Witness ==
    \E t \in Threads : pc[t] = "recovered" /\ validate.wait # 0

\* C7: once close_all_tunnels has returned and every supervisor has
\* stopped, no tunnel process the manager launched is alive.
C7_NoTunnelLeft ==
    (/\ closed >= 1
     /\ mpc = "idle"
     /\ \A t \in Threads : pc[t] \in {"idle", "done"})
        => tunnels = {}

C9_MutationsUnderLock ==
    [][/\ signatures' # signatures
            => (lock' # 0 /\ pc'[lock'] = "reg" /\ pc[lock'] # "reg")
       /\ (history' # history \/ procs' # procs)
            => (/\ lock # 0
                /\ pc[lock] \in {"reg", "clean_in", "track_in"}
                /\ pc'[lock] # pc[lock])
       /\ lock' # 0 => pc'[lock'] \in {"reg", "clean_in", "track_in"}]_vars

\* C9 witness: a thread holds the lock to record its handle while another
\* waits for the lock.
C9_Witness ==
    \E t, u \in Threads :
        t # u /\ lock = t /\ pc[t] = "track_in" /\ pc[u] \in {"clean", "track"}

\* C10: in every step the history of every definition is a prefix of its
\* history after the step.
C10_AppendOnly ==
    [][\A d \in Defs : IsPrefix(HistOf(d), HistOfNext(d))]_vars

\* C10 witness: a history of two entries that a shutdown has left alone.
C10_Witness ==
    \E d \in Defs : Len(HistOf(d)) = 2 /\ closed >= 1

\* C11: a step of a supervisor, its spawn_tunnel included, leaves the
\* history of every definition other than its own as it was.
C11_HistoriesIndependent ==
    [][\A t \in Threads :
        pc'[t] # pc[t]
            => \A d \in Defs \ {def'[t]} : HistOfNext(d) = HistOf(d)]_vars

\* C11 witness: two definitions of the host have a history each, and the
\* supervisors of both run.
C11_Witness ==
    \E t, u \in Threads :
        /\ def[t] = "d1" /\ def[u] = "d2"
        /\ Len(HistOf("d1")) = 1 /\ Len(HistOf("d2")) = 1
        /\ pc[t] = "probe" /\ pc[u] = "settle"

\* The steps of a relaunch from the call of spawn_ssh_process to the
\* settle wait; the call returns at once when the flag is set.
RelaunchSteps ==
    {<<"clean", "clean_in">>, <<"clean_in", "popen">>, <<"clean_in", "done">>,
     <<"popen", "track">>, <<"track", "track_in">>, <<"track_in", "settle">>}

\* C12: a supervisor that finds the process of its tunnel not alive calls
\* spawn_ssh_process at once, and from there to the launch it runs no
\* health probe, waits no grace period and no back-off, and kills nothing.
C12_ExitedRelaunch ==
    [][\A t \in Threads :
        /\ (/\ pc[t] = "alive"
            /\ ~is_process_alive(Signature(def[t]))
            /\ pc'[t] # pc[t])
              => /\ \/ pc'[t] = "clean" /\ caller'[t] = "exited"
                    \/ pc'[t] = "crashed"
                 /\ tunnels' = tunnels
                 /\ wrappers' = wrappers
        /\ (caller[t] = "exited" /\ pc'[t] # pc[t])
              => /\ <<pc[t], pc'[t]>> \in RelaunchSteps
                 /\ tunnels \subseteq tunnels'
                 /\ wrappers \subseteq wrappers'
                 /\ pc'[t] = "done" => is_terminating]_vars

\* C12 witness: the relaunch after an exit has launched its process.
C12_Witness ==
    \E t \in Threads : caller[t] = "exited" /\ pc[t] = "track"

\* C13: a failed startup verification is followed, after the back-off, by
\* another call of spawn_ssh_process, however many came before; a
\* verification that finds the process alive is followed by the
\* monitoring loop.
C13_RetryFollows ==
    [][\A t \in Threads :
        /\ (pc[t] = "backoff" /\ pc'[t] # pc[t])
              => pc'[t] = "clean" /\ caller'[t] = "retry"
        /\ (pc[t] = "settle" /\ pc'[t] # pc[t])
              => pc'[t] = IF is_process_alive(Signature(def[t]))
                          THEN LoopEntry ELSE "backoff"]_vars

\* C14: with the termination flag set, a supervisor that completes the
\* probe or the launch it was in begins no further check of the process
\* and no further probe before it has looked at the flag, whatever the
\* check interval, 0 included.
C14_StopsAfterFlag ==
    [][\A t \in Threads :
        (is_terminating /\ pc[t] \in {"settle", "probe", "recovered"})
            => pc'[t] \in {pc[t], "check", "grace", "backoff"}]_vars

Running(h) == h \in wrappers

\* C16: a _clean_up leaves in the handle list the handles whose process
\* is running, in their order, and no other; every handle it removes is
\* one whose process has exited.
C16_CleanUpReaps ==
    [][\A t \in Threads :
        (pc[t] = "clean_in" /\ pc'[t] # pc[t])
            => procs' = SelectSeq(procs, Running)]_vars

\* C16 witness: a _clean_up has removed the first of two tracked handles,
\* its process exited, and kept the second, its process running.
C16_Witness ==
    \E t \in Threads :
        /\ pc[t] \in {"popen", "done"}
        /\ lock = 0
        /\ procs = <<2>>
        /\ wrappers = {2}

RECURSIVE SumOfLengths(_)
SumOfLengths(S) ==
    IF S = {} THEN 0
    ELSE LET d == CHOOSE x \in S : TRUE
         IN  Len(history[d]) + SumOfLengths(S \ {d})

Registering == lock # 0 /\ pc[lock] = "reg"

\* C17 as claimed: in every reachable state the signature list is as long
\* as the histories together, and every definition with a history has its
\* signature in the list.
C17_EveryState ==
    /\ Len(signatures) = SumOfLengths(DOMAIN history)
    /\ \A d \in DOMAIN history :
         history[d] # <<>> =>
            \E i \in 1..Len(signatures) : signatures[i] = Signature(d)

\* C17 as amended: the same in every state in which no spawn_tunnel is
\* inside its critical section; and a spawn_tunnel inside it, the
\* signature appended, is one history entry short.
C17_OutsideRegistration ==
    /\ ~Registering => C17_EveryState
    /\ Registering => Len(signatures) = SumOfLengths(DOMAIN history) + 1
    /\ \A d \in Defs :
         Len(HistOf(d)) > 0 =>
            \E i \in 1..Len(signatures) : signatures[i] = Signature(d)

\* C17 witness: two spawn_tunnel calls for one definition have both
\* registered, the second while the supervisor of the first ran.
C17_Witness ==
    /\ signatures = <<"sig1", "sig1">>
    /\ Len(HistOf("d1")) = 2
    /\ ~Registering
    /\ pc[1] = "probe"

Monitoring ==
    {"check", "tick", "alive", "probe", "grace", "recheck", "recovered",
     "killq"}

\* C18: in every step of a supervisor: a launch is followed by the
\* recording of its handle, that by the settle wait, that by the
\* verification, and none of the three is reached another way; the
\* monitoring loop is entered only from a verification that found the
\* process alive, and left only to return or to call spawn_ssh_process,
\* from where the launch is the only way on.
C18_StateOrder ==
    [][\A t \in Threads :
        pc'[t] # pc[t] =>
            /\ (pc[t] = "popen") <=> (pc'[t] = "track")
            /\ (pc[t] = "track") <=> (pc'[t] = "track_in")
            /\ (pc[t] = "track_in") <=> (pc'[t] = "settle")
            /\ pc[t] = "track_in" => procs' = Append(procs, handle[t])
            /\ pc[t] = "settle" => pc'[t] \in Monitoring \cup {"backoff"}
            /\ (pc'[t] \in Monitoring /\ pc[t] \notin Monitoring)
                  => (pc[t] = "settle" /\ is_process_alive(Signature(def[t])))
            /\ (pc[t] \in Monitoring /\ pc'[t] \notin Monitoring)
                  => pc'[t] \in {"clean", "done", "crashed"}
            /\ pc[t] = "clean" => pc'[t] = "clean_in"
            /\ pc[t] = "clean_in" => pc'[t] \in {"popen", "done"}]_vars

\* C18 witness: after a restart from monitoring (the first process still
\* runs, so it was a failed health check), launch and verification passed
\* again, the supervisor is back in the monitoring loop.
C18_Witness ==
    /\ depth[1] = 2 /\ pc[1] = "probe"
    /\ pc[2] = "idle"
    /\ tunnels = {1, 2}

Spawns(d) == Cardinality({t \in Threads : def[t] = d})

\* C19 as claimed, the restart after a failed health check: when the
\* restart of the only supervisor of a definition has launched its
\* process, that is the only live process with the signature, whether
\* kill_existing_tunnel_on_failure is set or not.
C19_OnePerSignature ==
    \A t \in Threads :
        (caller[t] = "health" /\ pc[t] = "track" /\ Spawns(def[t]) = 1)
            => Cardinality(Matching(Signature(def[t]))) <= 1

\* C19 as amended: with kill_existing_tunnel_on_failure set, a definition
\* for which spawn_tunnel was called once has at most one live tunnel
\* process at every moment.
C19_OnePerSignatureKill ==
    validate.kill =>
        \A d \in Defs :
            Spawns(d) = 1 => Cardinality(Matching(Signature(d))) <= 1

\* C19 witness: a restart after a failed health check, the previous
\* process killed, has launched the new one.
C19_Witness ==
    \E t \in Threads :
        /\ validate.kill
        /\ caller[t] = "health" /\ pc[t] = "track"
        /\ Spawns(def[t]) = 1
        /\ Matching(Signature(def[t])) = {handle[t]}

\* The scheduler runs every thread that can take a step: each supervisor
\* and, inside a close_all_tunnels call, the main thread. Processes need
\* not exit and get_stats and close_all_tunnels need not be called.
Fairness ==
    /\ \A t \in Threads : WF_vars(Supervisor(t))
    /\ WF_vars(CloseSignatures)
    /\ WF_vars(CloseProcs)

FairSpec == Spec /\ Fairness

\* The supervisor has returned or ended, was never started, or waits at
\* the launch that the bound of the model withholds.
Stopped(t) ==
    \/ pc[t] \in {"idle", "done", "crashed"}
    \/ pc[t] = "popen" /\ Len(launched) = MaxLaunch

\* C20: once the termination flag is set, every supervisor eventually
\* returns, whatever its check interval, 0 included.
C20_EventuallyReturns ==
    \A t \in Threads : is_terminating ~> Stopped(t)

====
